---- MODULE Spec2Model ----
(***************************************************************************)
(* Model of the chat orchestration core of personal-site-backend:          *)
(*   app/services/process_chat_service.py  (process_request,               *)
(*       get_market_news_data, get_stock_analysis_data)                    *)
(*   app/services/gemini_service.py        (GeminiService.chat,            *)
(*       GeminiService.count_tokens)                                       *)
(*                                                                         *)
(* A text (Python str) is a sequence of tokens; its characters are the     *)
(* concatenation of the tokens.  "" is <<>>.  The whitespace tokens are    *)
(* " " and "\n".  A JSON document, a fixed message, a news item and a      *)
(* summary are one token each.                                             *)
(*                                                                         *)
(* process_request is a coroutine on a single-threaded asyncio event loop: *)
(* it runs without interruption from one await that really suspends (the   *)
(* HTTP gets inside the two data functions) to the next.  _gemini.chat and *)
(* _gemini.count_tokens are plain blocking calls and do not suspend.       *)
(***************************************************************************)
EXTENDS Integers, Sequences, FiniteSets, TLC

(***************************************************************************)
(* Program constants and bounds                                            *)
(***************************************************************************)
MAX_TOKENS == 1024
PlannerMaxTokens == 1000
GeneralMaxTokens == 512
SynthMaxTokens == 1024

\* Requests in flight at once (core workload).
NumReqs == 2
\* Longest feed the provider returns in the model (the URL asks limit=5).
MaxItems == 3

Reqs == 1..NumReqs

PyNone == "<None>"

\* str(v) as an f-string formats it.
Format(v) == IF v = PyNone THEN "None" ELSE v

(***************************************************************************)
(* Fixed texts of the program                                              *)
(***************************************************************************)
NotConfiguredMsg == <<"Gemini API is not configured. Set GEMINI_API_KEY and restart.">>
\* The source spells can't with U+2019.
SafetyMsg == <<"Sorry, I can't respond to that request due to safety policies. Please try rephrasing.">>
DidntUnderstandMsg == <<"I'm sorry, I didn't understand that. Can you rephrase?">>
SomethingWrongMsg == <<"Sorry, something went wrong. Please contact the administrator.">>
NeedTickerMsg == <<"I can analyze a stock, but I need a valid ticker symbol.">>
NoNewsMsg == <<"Sorry, I couldn't retrieve the latest market news at the moment.">>
NoStockDataMsg(ticker) == <<"Sorry, I couldn't retrieve financial data for ", Format(ticker), ".">>
BackendId == "gemini"

(***************************************************************************)
(* str helpers                                                             *)
(***************************************************************************)
IsSpace(tok) == tok \in {" ", "\n"}

RECURSIVE lstrip(_)
lstrip(s) == IF s # <<>> /\ IsSpace(Head(s)) THEN lstrip(Tail(s)) ELSE s

RECURSIVE rstrip(_)
rstrip(s) == IF s # <<>> /\ IsSpace(s[Len(s)]) THEN rstrip(SubSeq(s, 1, Len(s) - 1)) ELSE s

strip(s) == rstrip(lstrip(s))

startswith(s, tok) == s # <<>> /\ Head(s) = tok

removeprefix(s, tok) == IF startswith(s, tok) THEN Tail(s) ELSE s

removesuffix(s, tok) == IF s # <<>> /\ s[Len(s)] = tok THEN SubSeq(s, 1, Len(s) - 1) ELSE s

RECURSIVE join(_)
\* "".join(parts)
join(parts) == IF parts = <<>> THEN <<>> ELSE Head(parts) \o join(Tail(parts))

(***************************************************************************)
(* GeminiService.chat: the reply of genai's generate_content is            *)
(*   [raises]  the call raised, or a response object with                  *)
(*   text    : [ok, val]  resp.text (ok = FALSE: the accessor raises or    *)
(*             the attribute is not a str)                                 *)
(*   cands   : the candidates, each [parts, finish, ratings]: parts the    *)
(*             texts of the candidate's parts (<<>> for a part without     *)
(*             text), finish its finish_reason: [str, val] with str    *)
(*             whether it is a str and val its characters, ratings whether *)
(*             safety_ratings is non-empty                                 *)
(*   blocked : prompt_feedback carries a block_reason                      *)
(***************************************************************************)
LowerCase == <<"a", "b", "c", "d", "e", "f", "g", "h", "i", "j", "k", "l", "m",
               "n", "o", "p", "q", "r", "s", "t", "u", "v", "w", "x", "y", "z">>
UpperCase == <<"A", "B", "C", "D", "E", "F", "G", "H", "I", "J", "K", "L", "M",
               "N", "O", "P", "Q", "R", "S", "T", "U", "V", "W", "X", "Y", "Z">>

\* str.upper on one character (ASCII letters; any other character is kept)
UpperChar(c) ==
    IF \E i \in 1..Len(LowerCase) : LowerCase[i] = c
    THEN UpperCase[CHOOSE i \in 1..Len(LowerCase) : LowerCase[i] = c]
    ELSE c

\* str.upper: s is the sequence of the characters of the str
upper(s) == [i \in 1..Len(s) |-> UpperChar(s[i])]

\* A finish_reason that is a str, and one that is not (absent, or an enum).
Str(chars) == [str |-> TRUE, val |-> chars]
NotStr == [str |-> FALSE, val |-> <<>>]

\* The characters of the literal the code compares with (line 112).
SAFETY == <<"S", "A", "F", "E", "T", "Y">>

\* isinstance(finish_reason, str) and finish_reason.upper() == "SAFETY"
IsSafetyFinish(finish) == finish.str /\ upper(finish.val) = SAFETY

CandidateText(c) == strip(join(c.parts))

\* Mutant: resp.text is returned without the test for a blank text.
chat_blank_text(ready, reply) ==
    IF ~ready THEN NotConfiguredMsg
    ELSE IF reply.raises THEN SomethingWrongMsg
    ELSE IF reply.text.ok THEN reply.text.val
    ELSE IF reply.cands # <<>> /\ reply.cands[1].parts # <<>>
            /\ CandidateText(reply.cands[1]) # <<>>
         THEN CandidateText(reply.cands[1])
    ELSE IF reply.cands # <<>>
            /\ (reply.cands[1].ratings \/ IsSafetyFinish(reply.cands[1].finish))
         THEN SafetyMsg
    ELSE IF reply.blocked THEN SafetyMsg
    ELSE DidntUnderstandMsg

\* Mutant: the backend is called although the client is not configured.
chat_ready_unchecked(ready, reply) ==
    IF reply.raises THEN SomethingWrongMsg
    ELSE IF reply.text.ok /\ strip(reply.text.val) # <<>> THEN reply.text.val
    ELSE IF reply.cands # <<>> /\ reply.cands[1].parts # <<>>
            /\ CandidateText(reply.cands[1]) # <<>>
         THEN CandidateText(reply.cands[1])
    ELSE IF reply.cands # <<>>
            /\ (reply.cands[1].ratings \/ IsSafetyFinish(reply.cands[1].finish))
         THEN SafetyMsg
    ELSE IF reply.blocked THEN SafetyMsg
    ELSE DidntUnderstandMsg

chat(ready, reply) ==
    IF ~ready THEN NotConfiguredMsg
    ELSE IF reply.raises THEN SomethingWrongMsg
    ELSE IF reply.text.ok /\ strip(reply.text.val) # <<>> THEN reply.text.val
    ELSE IF reply.cands # <<>> /\ reply.cands[1].parts # <<>>
            /\ CandidateText(reply.cands[1]) # <<>>
         THEN CandidateText(reply.cands[1])
    ELSE IF reply.cands # <<>>
            /\ (reply.cands[1].ratings \/ IsSafetyFinish(reply.cands[1].finish))
         THEN SafetyMsg
    ELSE IF reply.blocked THEN SafetyMsg
    ELSE DidntUnderstandMsg

\* Reply shapes of the backend.
NoText == [ok |-> FALSE, val |-> <<>>]
PlainReply(t) == [raises |-> FALSE, text |-> [ok |-> TRUE, val |-> t], cands |-> <<>>, blocked |-> FALSE]
PartsReply(ps) == [raises |-> FALSE, text |-> NoText,
                   cands |-> <<[parts |-> ps, finish |-> Str(<<"S", "T", "O", "P">>),
                                ratings |-> FALSE]>>,
                   blocked |-> FALSE]
SafetyReply == [raises |-> FALSE, text |-> NoText,
                cands |-> <<[parts |-> <<>>, finish |-> Str(SAFETY), ratings |-> TRUE]>>,
                blocked |-> FALSE]
\* A candidate without text and without safety ratings, ended for the reason given.
FinishedReply(finish) ==
    [raises |-> FALSE, text |-> NoText,
     cands |-> <<[parts |-> <<>>, finish |-> finish, ratings |-> FALSE]>>, blocked |-> FALSE]
SafetyFinishReplies ==
    {FinishedReply(Str(f)) : f \in {SAFETY, <<"S", "a", "f", "e", "t", "y">>,
                                    <<"s", "a", "f", "e", "t", "y">>,
                                    <<"s", "A", "F", "E", "T", "Y">>}}
OtherFinishReplies ==
    {FinishedReply(NotStr), FinishedReply(Str(<<"S", "T", "O", "P">>)),
     FinishedReply(Str(<<"S", "A", "F", "E">>)),
     FinishedReply(Str(<<"U", "N", "S", "A", "F", "E", "T", "Y">>))}
TruncatedReply == [raises |-> FALSE, text |-> NoText,
                   cands |-> <<[parts |-> <<>>,
                                finish |-> Str(<<"M", "A", "X", "_", "T", "O", "K", "E", "N", "S">>),
                                ratings |-> FALSE]>>,
                   blocked |-> FALSE]
PromptBlockedReply == [raises |-> FALSE, text |-> NoText, cands |-> <<>>, blocked |-> TRUE]
EmptyReply == [raises |-> FALSE, text |-> [ok |-> TRUE, val |-> <<" ">>], cands |-> <<>>, blocked |-> FALSE]
RaiseReply == [raises |-> TRUE, text |-> NoText, cands |-> <<>>, blocked |-> FALSE]

FailureReplies ==
    {SafetyReply, TruncatedReply, PromptBlockedReply, EmptyReply, RaiseReply}
        \cup SafetyFinishReplies \cup OtherFinishReplies

(***************************************************************************)
(* GeminiService.count_tokens.  The backend's tokenizer is a function of   *)
(* the text: every token has a weight and a "\n" between two summaries     *)
(* costs nl tokens (0: an additive tokenizer).  The backend call may also  *)
(* raise, or answer without a total.                                       *)
(***************************************************************************)
TokenWeight(tok) ==
    CASE tok = "s1" -> 1
      [] tok = "s511" -> 511
      [] tok = "s512" -> 512
      [] tok = "s1025" -> 1025
      [] tok = " " -> 0
      [] tok = "\n" -> 0
      [] OTHER -> 12

RECURSIVE BackendTotal(_, _)
BackendTotal(text, nl) ==
    IF text = <<>> THEN 0
    ELSE (IF Head(text) = "\n" THEN nl ELSE TokenWeight(Head(text)))
         + BackendTotal(Tail(text), nl)

\* how: "ok" the backend reports its total, "nototal" the reply carries none,
\* "raise" the call raised.
CountReply(text, nl, how) ==
    [raises |-> how = "raise", total |-> IF how = "ok" THEN BackendTotal(text, nl) ELSE -1,
     has_total |-> how = "ok"]

\* Mutant: an unavailable count is reported as a count over the ceiling.
count_tokens_over_ceiling(ready, rep) ==
    IF ~ready THEN MAX_TOKENS + 1
    ELSE IF rep.raises THEN MAX_TOKENS + 1
    ELSE IF ~rep.has_total \/ rep.total = 0 THEN MAX_TOKENS + 1
    ELSE rep.total

count_tokens(ready, rep) ==
    IF ~ready THEN -1
    ELSE IF rep.raises THEN -1
    ELSE IF ~rep.has_total \/ rep.total = 0 THEN -1
    ELSE rep.total

(***************************************************************************)
(* json.loads on the planner's output.  A parsed value is                  *)
(*   [t, intent, entities]: t the JSON type; for an object, intent is the  *)
(*   value of its "intent" key (PyNone: no such key) and entities the      *)
(*   value of its "entities" key: [t, items] with t "absent", "null" or    *)
(*   "list"; an item is [t, type, value] (t "object" or "string"; PyNone:  *)
(*   the key is absent).                                                   *)
(***************************************************************************)
NoEntities == [t |-> "absent", items |-> <<>>]
NullEntities == [t |-> "null", items |-> <<>>]
EntityList(items) == [t |-> "list", items |-> items]
Entity(type, value) == [t |-> "object", type |-> type, value |-> value]
StringEntity == [t |-> "string", type |-> PyNone, value |-> PyNone]
Object(intent, entities) == [t |-> "object", intent |-> intent, entities |-> entities]
NonObject(t) == [t |-> t, intent |-> PyNone, entities |-> NoEntities]

DocGeneral == "{\"intent\": \"general_chat\", \"entities\": []}"
DocNews == "{\"intent\": \"market_news\", \"entities\": []}"
DocOther == "{\"intent\": \"weather\"}"
DocNoIntent == "{\"entities\": []}"
DocArray == "[]"
DocNull == "null"
DocStock == "{\"intent\": \"stock_analysis\", \"entities\": [{\"type\": \"ticker\", \"value\": \"TSLA\"}]}"
DocStockEmptyValue == "{\"intent\": \"stock_analysis\", \"entities\": [{\"type\": \"ticker\", \"value\": \"\"}]}"
DocStockNoValue == "{\"intent\": \"stock_analysis\", \"entities\": [{\"type\": \"ticker\"}]}"
DocStockNoEntities == "{\"intent\": \"stock_analysis\"}"
DocStockEmptyList == "{\"intent\": \"stock_analysis\", \"entities\": []}"
DocStockNullEntities == "{\"intent\": \"stock_analysis\", \"entities\": null}"
DocStockCompany == "{\"intent\": \"stock_analysis\", \"entities\": [{\"type\": \"company\", \"value\": \"Tesla\"}]}"
DocStockNoType == "{\"intent\": \"stock_analysis\", \"entities\": [{\"value\": \"TSLA\"}]}"
DocStockStringEntity == "{\"intent\": \"stock_analysis\", \"entities\": [\"TSLA\"]}"

JsonValue(doc) ==
    CASE doc = DocGeneral -> Object("general_chat", EntityList(<<>>))
      [] doc = DocNews -> Object("market_news", EntityList(<<>>))
      [] doc = DocOther -> Object("weather", NoEntities)
      [] doc = DocNoIntent -> Object(PyNone, EntityList(<<>>))
      [] doc = DocArray -> NonObject("array")
      [] doc = DocNull -> NonObject("null")
      [] doc = DocStock -> Object("stock_analysis", EntityList(<<Entity("ticker", "TSLA")>>))
      [] doc = DocStockEmptyValue -> Object("stock_analysis", EntityList(<<Entity("ticker", "")>>))
      [] doc = DocStockNoValue -> Object("stock_analysis", EntityList(<<Entity("ticker", PyNone)>>))
      [] doc = DocStockNoEntities -> Object("stock_analysis", NoEntities)
      [] doc = DocStockEmptyList -> Object("stock_analysis", EntityList(<<>>))
      [] doc = DocStockNullEntities -> Object("stock_analysis", NullEntities)
      [] doc = DocStockCompany -> Object("stock_analysis", EntityList(<<Entity("company", "Tesla")>>))
      [] doc = DocStockNoType -> Object("stock_analysis", EntityList(<<Entity(PyNone, "TSLA")>>))
      [] doc = DocStockStringEntity -> Object("stock_analysis", EntityList(<<StringEntity>>))

JsonDocs == {DocGeneral, DocNews, DocOther, DocNoIntent, DocArray, DocNull, DocStock,
             DocStockEmptyValue, DocStockNoValue, DocStockNoEntities, DocStockEmptyList,
             DocStockNullEntities, DocStockCompany, DocStockNoType, DocStockStringEntity}

\* json.loads(text): a document with nothing else around it parses; anything
\* else is a JSONDecodeError.
json_loads(text) ==
    IF Len(text) = 1 /\ text[1] \in JsonDocs
    THEN [ok |-> TRUE, val |-> JsonValue(text[1])]
    ELSE [ok |-> FALSE, val |-> NonObject("undefined")]

\* The markdown fence: three grave accents (U+0060), and the same followed by json.
Fence == "<fence>"
FenceJson == "<fence>json"

Fenced(doc) == <<FenceJson, "\n", doc, "\n", Fence>>

\* What the planner model may generate.
PlannerTexts(wide) ==
    IF wide
    THEN {<<d>> : d \in JsonDocs}
         \cup {<<"hello">>, Fenced(DocNews), Fenced(DocStock), Fenced("hello"),
               <<Fence, "\n", DocNews, "\n", Fence>>, <<FenceJson, "\n", DocNews>>,
               <<"\n", DocStock, " ">>, <<"Here is the plan: ", DocNews>>}
    ELSE {<<DocNews>>, <<DocStock>>, <<"hello">>}

(***************************************************************************)
(* process_request, STEP 1: the planner (lines 41-52)                      *)
(***************************************************************************)
cleaned_response(pr) ==
    LET c == strip(pr)
    IN IF startswith(c, FenceJson)
       THEN strip(removesuffix(removeprefix(c, FenceJson), Fence))
       ELSE c

GeneralChatPlan == Object("general_chat", NoEntities)

plan_of(pr) ==
    LET d == json_loads(cleaned_response(pr))
    IN IF d.ok THEN d.val ELSE GeneralChatPlan

(***************************************************************************)
(* process_request, STEP 2: routing up to the first data call (55-63, 77,  *)
(* 110).  kind "raise": an AttributeError leaves process_request.          *)
(***************************************************************************)
Route(kind, ticker) == [kind |-> kind, ticker |-> ticker]

\* not entities
Falsy(entities) == entities.t \in {"absent", "null"} \/ entities.items = <<>>

\* Mutant: the type of the first entity is not looked at.
route_of_untyped(plan) ==
    IF plan.t # "object" THEN Route("raise", PyNone)
    ELSE IF plan.intent = "stock_analysis"
         THEN IF Falsy(plan.entities) THEN Route("need_ticker", PyNone)
              ELSE IF plan.entities.items[1].t # "object" THEN Route("raise", PyNone)
              ELSE Route("stock", plan.entities.items[1].value)
    ELSE IF plan.intent = "market_news" THEN Route("news", PyNone)
    ELSE Route("general", PyNone)

\* Mutant: an intent the router does not know is served as market_news.
route_of_unknown_as_news(plan) ==
    IF plan.t # "object" THEN Route("raise", PyNone)
    ELSE IF plan.intent = "stock_analysis"
         THEN IF Falsy(plan.entities) THEN Route("need_ticker", PyNone)
              ELSE IF plan.entities.items[1].t # "object" THEN Route("raise", PyNone)
              ELSE IF plan.entities.items[1].type # "ticker" THEN Route("need_ticker", PyNone)
              ELSE Route("stock", plan.entities.items[1].value)
    ELSE IF plan.intent \in {"market_news", "weather"} THEN Route("news", PyNone)
    ELSE Route("general", PyNone)

route_of(plan) ==
    IF plan.t # "object" THEN Route("raise", PyNone)
    ELSE IF plan.intent = "stock_analysis"
         THEN IF Falsy(plan.entities) THEN Route("need_ticker", PyNone)
              ELSE IF plan.entities.items[1].t # "object" THEN Route("raise", PyNone)
              ELSE IF plan.entities.items[1].type # "ticker" THEN Route("need_ticker", PyNone)
              ELSE Route("stock", plan.entities.items[1].value)
    ELSE IF plan.intent = "market_news" THEN Route("news", PyNone)
    ELSE Route("general", PyNone)

(***************************************************************************)
(* The data source.  An HTTP get ends in one of                            *)
(*   "raise"      the transport raised (httpx.RequestError)                *)
(*   "http_error" a response whose status is not 200                       *)
(*   "notjson"    status 200, the body is not JSON                         *)
(*   "nokey"      status 200, a JSON object without the expected key (a    *)
(*                notice or error object of the provider)                  *)
(*   "ok"         status 200, a JSON object with the expected key          *)
(* A result is [kind, val]: "none" (None), "data", or "raise" (the         *)
(* function raised into its caller).                                       *)
(***************************************************************************)
Sources == {"quote", "overview", "news"}

FetchOutcomes(wide) ==
    IF wide THEN {"raise", "http_error", "notjson", "nokey", "ok"} ELSE {"raise", "ok"}

Feeds == {SubSeq(<<"item1", "item2", "item3", "item4", "item5">>, 1, n) : n \in 0..MaxItems}

DataNone == [kind |-> "none", val |-> <<>>]
DataRaise == [kind |-> "raise", val |-> <<>>]
Data(v) == [kind |-> "data", val |-> v]

\* lines 121-135, after the get: feed is the list under the feed key of the body
get_market_news_data(key_set, outcome, feed) ==
    IF ~key_set THEN DataNone
    ELSE IF outcome = "raise" THEN DataNone
    ELSE IF outcome = "http_error" THEN DataNone
    ELSE IF outcome = "notjson" THEN DataRaise
    ELSE IF outcome = "nokey" THEN DataNone
    ELSE Data(feed)

Status200(outcome) == outcome \in {"notjson", "nokey", "ok"}

\* Mutant: a get that raised only leaves its section out.
get_stock_analysis_data_partial(key_set, got) ==
    IF ~key_set THEN DataNone
    ELSE IF \E s \in Sources : got[s] = "notjson" THEN DataNone
    ELSE Data((IF got["quote"] = "ok" THEN <<"quote">> ELSE <<>>)
              \o (IF Status200(got["overview"]) THEN <<"overview">> ELSE <<>>)
              \o (IF got["news"] = "ok" THEN <<"news">> ELSE <<>>))

\* lines 137-186, after the gather: got maps each source to its outcome; the
\* payload is the sequence of its sections in insertion order
get_stock_analysis_data(key_set, got) ==
    IF ~key_set THEN DataNone
    ELSE IF \E s \in Sources : got[s] = "raise" THEN DataNone
    ELSE IF \E s \in Sources : got[s] = "notjson" THEN DataNone
    ELSE Data((IF got["quote"] = "ok" THEN <<"quote">> ELSE <<>>)
              \o (IF Status200(got["overview"]) THEN <<"overview">> ELSE <<>>)
              \o (IF got["news"] = "ok" THEN <<"news">> ELSE <<>>))

(***************************************************************************)
(* What the model's backend generates at each call site, and how a         *)
(* count_tokens call may end.  The wide workload is one request with every *)
(* input shape; the core workload is NumReqs concurrent requests with the  *)
(* shapes that drive the three intents.                                    *)
(***************************************************************************)
PlannerReplies(wide) ==
    {PlainReply(t) : t \in PlannerTexts(wide)}
    \cup (IF wide THEN {PartsReply(<<<<DocNews>>, <<>>, <<"\n">>>>)} \cup FailureReplies
          ELSE {})

GeneralReplies(wide) ==
    {PlainReply(<<"Hello! How can I help?">>)}
    \cup (IF wide THEN {PartsReply(<<<<"Hello!">>, <<" ">>>>)} \cup FailureReplies ELSE {})

SummaryTexts(wide) ==
    IF wide THEN {<<"s1">>, <<"s511">>, <<"s512">>, <<"s1025">>} ELSE {<<"s512">>}

ItemReplies(wide) ==
    {PlainReply(t) : t \in SummaryTexts(wide)}

DigestReplies(wide) ==
    {PlainReply(<<"digest">>)} \cup (IF wide THEN {RaiseReply} ELSE {})

AnalysisReplies(wide) ==
    {PlainReply(<<"analysis">>)} \cup (IF wide THEN {RaiseReply} ELSE {})

CountHows(wide) == IF wide THEN {"ok", "nototal", "raise"} ELSE {"ok"}

(***************************************************************************)
(* State                                                                   *)
(***************************************************************************)
VARIABLES
    wide,                   \* the workload (see above)
    client_ready,           \* GeminiService.client_ready of _gemini
    ALPHA_VANTAGE_API_KEY,  \* whether the module constant is set
    nl,                     \* the tokenizer's cost of a newline between summaries
    planner_response,       \* module-level global of process_chat_service
    final_response,         \* module-level global
    final_response_token,   \* module-level global
    running,                \* the request inside its news loop (0: none); it holds the event loop
    pc,                     \* where each request is
    ticker,                 \* local of process_request
    news_data,              \* local of process_request
    idx,                    \* position of the for loop in news_data (1-based)
    fetch,                  \* the three gets of get_stock_analysis_data
    result,                 \* what process_request returned or raised
    log,                    \* history: the calls each request made, in order
    summaries,              \* history: the texts the per-item calls returned, in order
    checks,                 \* history: the budget checks of the loop, in order
    plan_text,              \* history: the text the planner call returned to each request
    gathered,               \* history: what the data function returned to each request
    accessed,               \* history: per global, the requests in flight that read or wrote it
    counted                 \* history: the last direct call of count_tokens

vars == <<wide, client_ready, ALPHA_VANTAGE_API_KEY, nl, planner_response, final_response,
          final_response_token, running, pc, ticker, news_data, idx, fetch, result, log,
          summaries, checks, plan_text, gathered, accessed, counted>>

Globals == {"planner_response", "final_response", "final_response_token"}

\* The requests that arrive.
Active == IF wide THEN {1} ELSE Reqs

ReqText(r) == <<"user text ", ToString(r)>>

NoResult == [kind |-> "none", response |-> <<>>, backend |-> ""]
Response(text) == [kind |-> "response", response |-> text, backend |-> BackendId]
Raised(exc) == [kind |-> "exception", response |-> <<exc>>, backend |-> ""]

\* A call: its arguments and, for a completion, the text it returned.
Ev(op, stage, max_tokens, content, reply) ==
    [op |-> op, stage |-> stage, max_tokens |-> max_tokens, content |-> content,
     reply |-> reply]
ChatEv(stage, max_tokens, content, reply) == Ev("chat", stage, max_tokens, content, reply)
CountEv(stage, text) == Ev("count_tokens", stage, 0, text, <<>>)
CallEv(fn, arg) == Ev(fn, "call", 0, arg, <<>>)
FetchEv(src) == Ev("get", src, 0, <<>>, <<>>)
\* The get of a source ended (with a response or an exception); the wide
\* workload keeps the order in which the gets of a request end.
EndedEv(src) == Ev("ended", src, 0, <<>>, <<>>)

\* A budget check: c the count of the candidate, acc the accumulated count it
\* was added to, appended the outcome, total the count measured after the append.
Check(c, acc, appended, total) == [c |-> c, acc |-> acc, appended |-> appended, total |-> total]

NotGathered == [kind |-> "notcalled", val |-> <<>>]

\* A call of count_tokens: the reply of the backend and the value returned.
Counted(rep, out) == [called |-> TRUE, rep |-> rep, out |-> out]
NotCounted == [called |-> FALSE, rep |-> [raises |-> FALSE, total |-> -1, has_total |-> FALSE],
               out |-> -1]
Pending == [s \in Sources |-> "pending"]

Init ==
    /\ wide \in BOOLEAN
    /\ client_ready \in BOOLEAN
    /\ ALPHA_VANTAGE_API_KEY \in BOOLEAN
    /\ nl \in {0, 1}
    /\ planner_response = <<>>
    /\ final_response = <<>>
    /\ final_response_token = 0
    /\ running = 0
    /\ pc = [r \in Reqs |-> "idle"]
    /\ ticker = [r \in Reqs |-> PyNone]
    /\ news_data = [r \in Reqs |-> <<>>]
    /\ idx = [r \in Reqs |-> 1]
    /\ fetch = [r \in Reqs |-> Pending]
    /\ result = [r \in Reqs |-> NoResult]
    /\ log = [r \in Reqs |-> <<>>]
    /\ summaries = [r \in Reqs |-> <<>>]
    /\ checks = [r \in Reqs |-> <<>>]
    /\ plan_text = [r \in Reqs |-> <<>>]
    /\ gathered = [r \in Reqs |-> NotGathered]
    /\ accessed = [g \in Globals |-> {}]
    /\ counted = NotCounted

(***************************************************************************)
(* process_request from its start to its first suspension or its return    *)
(* (lines 19-63, 77-81, 110-119), given the planner's text pr and the text *)
(* resp a general_chat completion returns.                                 *)
(***************************************************************************)
Step(to, res, tick, got, events) ==
    [pc |-> to, result |-> res, ticker |-> tick, gathered |-> got, events |-> events]

begin_step(r, pr, resp, key_set) ==
    LET route == route_of(plan_of(pr))
        planned == <<ChatEv("planner", PlannerMaxTokens, ReqText(r), pr)>>
    IN CASE route.kind = "raise" ->
              Step("done", Raised("AttributeError"), PyNone, NotGathered, planned)
         [] route.kind = "need_ticker" ->
              Step("done", Response(NeedTickerMsg), PyNone, NotGathered, planned)
         [] route.kind = "stock" ->
              IF key_set
              THEN Step("await_stock", NoResult, route.ticker, NotGathered,
                        planned \o <<CallEv("get_stock_analysis_data", <<Format(route.ticker)>>),
                                     FetchEv("quote"), FetchEv("overview"), FetchEv("news")>>)
              ELSE Step("done", Response(NoStockDataMsg(route.ticker)), route.ticker,
                        get_stock_analysis_data(key_set, Pending),
                        planned \o <<CallEv("get_stock_analysis_data", <<Format(route.ticker)>>)>>)
         [] route.kind = "news" ->
              IF key_set
              THEN Step("await_news", NoResult, PyNone, NotGathered,
                        planned \o <<CallEv("get_market_news_data", <<>>), FetchEv("feed")>>)
              ELSE Step("done", Response(NoNewsMsg), PyNone,
                        get_market_news_data(key_set, "raise", <<>>),
                        planned \o <<CallEv("get_market_news_data", <<>>)>>)
         [] OTHER ->
              Step("done", Response(resp), PyNone, NotGathered,
                   planned \o <<ChatEv("general", GeneralMaxTokens, ReqText(r), resp)>>)

InFlight(p) == p \in {"await_stock", "await_news", "loop", "final"}

\* The request touched every global (lines 25-27, 42, 45); it stays in the
\* history while it is in flight.
Touch(r, to) ==
    [g \in Globals |-> IF InFlight(to) THEN accessed[g] \cup {r} ELSE accessed[g] \ {r}]

Begin(r) ==
    /\ pc[r] = "idle"
    /\ running = 0
    /\ r \in Active
    /\ \E reply \in PlannerReplies(wide), reply2 \in GeneralReplies(wide) :
         LET pr == chat(client_ready, reply)
             st == begin_step(r, pr, chat(client_ready, reply2), ALPHA_VANTAGE_API_KEY)
         IN /\ planner_response' = pr
            /\ final_response' = <<>>
            /\ final_response_token' = 0
            /\ pc' = [pc EXCEPT ![r] = st.pc]
            /\ result' = [result EXCEPT ![r] = st.result]
            /\ ticker' = [ticker EXCEPT ![r] = st.ticker]
            /\ log' = [log EXCEPT ![r] = st.events]
            /\ plan_text' = [plan_text EXCEPT ![r] = pr]
            /\ gathered' = [gathered EXCEPT ![r] = st.gathered]
            /\ accessed' = Touch(r, st.pc)
    /\ fetch' = [fetch EXCEPT ![r] = Pending]
    /\ UNCHANGED <<counted, wide, client_ready, ALPHA_VANTAGE_API_KEY, nl, running, news_data, idx,
                   summaries, checks>>

(***************************************************************************)
(* stock_analysis: the three gets complete in any order; the gather then   *)
(* returns and process_request runs to its return (lines 150-186, 65-75).  *)
(***************************************************************************)
FetchComplete(r, src) ==
    /\ pc[r] = "await_stock"
    /\ running = 0
    /\ fetch[r][src] = "pending"
    /\ \E o \in FetchOutcomes(wide) : fetch' = [fetch EXCEPT ![r][src] = o]
    /\ log' = [log EXCEPT ![r] = IF wide THEN Append(@, EndedEv(src)) ELSE @]
    /\ UNCHANGED <<counted, wide, client_ready, ALPHA_VANTAGE_API_KEY, nl, planner_response,
                   final_response, final_response_token, running, pc, ticker, news_data, idx,
                   result, summaries, checks, plan_text, gathered, accessed>>

\* Mutant: only None counts as no data.
NoData_none_only(d) == d.kind = "none"

\* not stock_data / not news_data
NoData(d) == d.kind = "none" \/ d.val = <<>>

\* A section of the payload as json.dumps writes it: its key and its value.
Serialized(section) ==
    CASE section = "quote" -> "\"quote\": {price, change_percent, volume}"
      [] section = "overview" -> "\"overview\": {market_cap, pe_ratio, eps, 52_week_high, 52_week_low}"
      [] section = "news" -> "\"news\": [{title, sentiment}]"

\* json.dumps(stock_data, indent=2): the sections in insertion order, in braces
json_dumps(payload) ==
    <<"{">> \o [i \in 1..Len(payload) |-> Serialized(payload[i])] \o <<"}">>

\* Mutant: the payload is left out of the user message.
StockContent_no_payload(tick, payload) == <<"Data for ", Format(tick), ":\n">>

\* line 73
StockContent(tick, payload) == <<"Data for ", Format(tick), ":\n">> \o json_dumps(payload)

\* Mutant: the gather returns with the first get that ends.
gather_done_first(f) == \E s \in Sources : f[s] # "pending"

\* Mutant: the first exception ends the gather while other gets are pending.
gather_done_on_first_exception(f) ==
    \/ \E s \in Sources : f[s] = "raise"
    \/ \A s \in Sources : f[s] # "pending"

\* line 150: asyncio.gather returns when the three gets have ended
gather_done(f) == \A s \in Sources : f[s] # "pending"

StockResume(r) ==
    /\ pc[r] = "await_stock"
    /\ running = 0
    /\ gather_done(fetch[r])
    /\ \E reply \in AnalysisReplies(wide) :
         LET stock_data == get_stock_analysis_data(ALPHA_VANTAGE_API_KEY, fetch[r])
         IN IF NoData(stock_data)
            THEN /\ result' = [result EXCEPT ![r] = Response(NoStockDataMsg(ticker[r]))]
                 /\ UNCHANGED <<final_response, log>>
            ELSE /\ final_response' = chat(client_ready, reply)
                 /\ result' = [result EXCEPT ![r] = Response(final_response')]
                 /\ log' = [log EXCEPT ![r] =
                              @ \o <<ChatEv("stock", SynthMaxTokens,
                                             StockContent(ticker[r], stock_data.val),
                                             final_response')>>]
    /\ gathered' = [gathered EXCEPT ![r] =
                      get_stock_analysis_data(ALPHA_VANTAGE_API_KEY, fetch[r])]
    /\ pc' = [pc EXCEPT ![r] = "done"]
    /\ accessed' = Touch(r, "done")
    /\ UNCHANGED <<counted, wide, client_ready, ALPHA_VANTAGE_API_KEY, nl, planner_response,
                   final_response_token, running, ticker, news_data, idx, fetch, summaries,
                   checks, plan_text>>

(***************************************************************************)
(* market_news: the get returns; get_market_news_data finishes and         *)
(* process_request runs on (lines 128-135, 79-85).  With news it enters    *)
(* the loop, which makes only blocking calls: the request keeps the event  *)
(* loop until it returns.                                                  *)
(***************************************************************************)
\* Mutant: the accumulators are not reset before the loop.
loop_start_stale ==
    [final_response_token |-> final_response_token, final_response |-> final_response]

\* Mutant: the accumulated count is not reset before the loop.
loop_start_keep_count ==
    [final_response_token |-> final_response_token, final_response |-> <<>>]

\* lines 84-85
loop_start == [final_response_token |-> 0, final_response |-> <<>>]

NewsFetchReturn(r) ==
    /\ pc[r] = "await_news"
    /\ running = 0
    /\ \E o \in FetchOutcomes(wide), feed \in Feeds :
         LET got == get_market_news_data(ALPHA_VANTAGE_API_KEY, o, feed)
         IN /\ gathered' = [gathered EXCEPT ![r] = got]
            /\ IF got.kind = "raise"
               THEN /\ result' = [result EXCEPT ![r] = Raised("JSONDecodeError")]
                    /\ pc' = [pc EXCEPT ![r] = "done"]
                    /\ accessed' = Touch(r, "done")
                    /\ UNCHANGED <<final_response, final_response_token, running, news_data>>
               ELSE IF NoData(got)
               THEN /\ result' = [result EXCEPT ![r] = Response(NoNewsMsg)]
                    /\ pc' = [pc EXCEPT ![r] = "done"]
                    /\ accessed' = Touch(r, "done")
                    /\ UNCHANGED <<final_response, final_response_token, running, news_data>>
               ELSE /\ final_response_token' = loop_start.final_response_token
                    /\ final_response' = loop_start.final_response
                    /\ news_data' = [news_data EXCEPT ![r] = got.val]
                    /\ pc' = [pc EXCEPT ![r] = IF got.val = <<>> THEN "final" ELSE "loop"]
                    /\ running' = r
                    /\ accessed' = Touch(r, "loop")
                    /\ UNCHANGED result
    /\ idx' = [idx EXCEPT ![r] = 1]
    /\ summaries' = [summaries EXCEPT ![r] = <<>>]
    /\ checks' = [checks EXCEPT ![r] = <<>>]
    /\ UNCHANGED <<counted, wide, client_ready, ALPHA_VANTAGE_API_KEY, nl, planner_response, ticker,
                   fetch, log, plan_text>>

\* (final_response_token or 0)
Or0(x) == IF x = 0 THEN 0 ELSE x

\* Mutant: the budget check stops at the ceiling itself.
over_budget_at_ceiling(acc, resp_token) == (Or0(acc) + resp_token) >= MAX_TOKENS

\* Mutant: a candidate without a count stops the loop.
over_budget_unavailable_stops(acc, resp_token) ==
    resp_token = -1 \/ (Or0(acc) + resp_token) > MAX_TOKENS

\* line 94
over_budget(acc, resp_token) == (Or0(acc) + resp_token) > MAX_TOKENS

\* line 99
appended_text(acc_text, resp) ==
    IF acc_text # <<>> THEN acc_text \o <<"\n">> \o resp ELSE resp

\* Mutant: continue instead of break.
loop_after_skip(over, i, n) ==
    IF i < n THEN [pc |-> "loop", idx |-> i + 1]
    ELSE [pc |-> "final", idx |-> IF over THEN i ELSE i + 1]

\* The for statement and its break: where the loop goes after the item at
\* position i of n, given the budget check.
loop_after(over, i, n) ==
    IF over THEN [pc |-> "final", idx |-> i]
    ELSE IF i < n THEN [pc |-> "loop", idx |-> i + 1]
    ELSE [pc |-> "final", idx |-> i + 1]

ItemContent(item) == <<"Market News:\n", item>>

\* Mutant: the accumulated count is the sum of the per-item counts.
accumulated_count_summed(acc, resp_token, measured) == Or0(acc) + resp_token

\* line 100: the accumulated count is the count measured for the whole text
accumulated_count(acc, resp_token, measured) == measured

\* One iteration of the loop (lines 86-100).
LoopIter(r) ==
    /\ pc[r] = "loop"
    /\ running = r
    /\ \E reply \in ItemReplies(wide), h1 \in CountHows(wide), h2 \in CountHows(wide) :
         LET item == news_data[r][idx[r]]
             resp == chat(client_ready, reply)
             resp_token == count_tokens(client_ready, CountReply(resp, nl, h1))
             over == over_budget(final_response_token, resp_token)
             text == appended_text(final_response, resp)
             total == accumulated_count(final_response_token, resp_token,
                                        count_tokens(client_ready, CountReply(text, nl, h2)))
             go == loop_after(over, idx[r], Len(news_data[r]))
             called == <<ChatEv("item", SynthMaxTokens, ItemContent(item), resp),
                         CountEv("item", resp)>>
         IN /\ summaries' = [summaries EXCEPT ![r] = Append(@, resp)]
            /\ pc' = [pc EXCEPT ![r] = go.pc]
            /\ idx' = [idx EXCEPT ![r] = go.idx]
            /\ IF over
               THEN /\ log' = [log EXCEPT ![r] = @ \o called]
                    /\ checks' = [checks EXCEPT ![r] =
                                    Append(@, Check(resp_token, final_response_token, FALSE, 0))]
                    /\ UNCHANGED <<final_response, final_response_token>>
               ELSE /\ final_response' = text
                    /\ final_response_token' = total
                    /\ checks' = [checks EXCEPT ![r] =
                                    Append(@, Check(resp_token, final_response_token, TRUE, total))]
                    /\ log' = [log EXCEPT ![r] =
                                 @ \o called \o <<CountEv("log", resp), CountEv("total", text)>>]
    /\ UNCHANGED <<counted, wide, client_ready, ALPHA_VANTAGE_API_KEY, nl, planner_response, running,
                   ticker, news_data, fetch, result, plan_text, gathered, accessed>>

\* Mutant: the final call gets the ceiling of the per-item calls.
DigestMaxTokens_single == MAX_TOKENS

\* line 107: max_tokens=MAX_TOKENS*2
DigestMaxTokens == MAX_TOKENS * 2

\* STEP 3 for market_news (lines 102-108).
FinalSynthesis(r) ==
    /\ pc[r] = "final"
    /\ running = r
    /\ \E reply \in DigestReplies(wide) :
         /\ final_response' = chat(client_ready, reply)
         /\ result' = [result EXCEPT ![r] = Response(final_response')]
         /\ log' = [log EXCEPT ![r] =
                      @ \o <<ChatEv("final", DigestMaxTokens,
                                     <<"Market News:\n">> \o final_response, final_response')>>]
    /\ pc' = [pc EXCEPT ![r] = "done"]
    /\ running' = 0
    /\ accessed' = Touch(r, "done")
    /\ UNCHANGED <<counted, wide, client_ready, ALPHA_VANTAGE_API_KEY, nl, planner_response,
                   final_response_token, ticker, news_data, idx, fetch, summaries,
                   checks, plan_text, gathered>>

Next ==
    \E r \in Reqs :
        \/ Begin(r)
        \/ \E src \in Sources : FetchComplete(r, src)
        \/ StockResume(r)
        \/ NewsFetchReturn(r)
        \/ LoopIter(r)
        \/ FinalSynthesis(r)

Spec == Init /\ [][Next]_vars

(***************************************************************************)
(* GeminiService.count_tokens on its own: any caller, any text.  The       *)
(* backend raises, answers without a total, or reports a total.            *)
(***************************************************************************)
ReportedTotals == {0, 1, 511, 512, MAX_TOKENS, MAX_TOKENS + 1}

BackendCountReplies ==
    {[raises |-> TRUE, total |-> -1, has_total |-> FALSE],
     [raises |-> FALSE, total |-> -1, has_total |-> FALSE]}
    \cup {[raises |-> FALSE, total |-> t, has_total |-> TRUE] : t \in ReportedTotals}

CountCall ==
    /\ \E rep \in BackendCountReplies :
          counted' = Counted(rep, count_tokens(client_ready, rep))
    /\ UNCHANGED <<wide, client_ready, ALPHA_VANTAGE_API_KEY, nl, planner_response,
                   final_response, final_response_token, running, pc, ticker, news_data, idx,
                   fetch, result, log, summaries, checks, plan_text, gathered, accessed>>

NextCount == CountCall

SpecCount == Init /\ [][NextCount]_vars

(***************************************************************************)
(* Properties                                                              *)
(***************************************************************************)
Done(r) == pc[r] = "done"

\* The calls of request r with the given op, in order.
Calls(r, op) == SelectSeq(log[r], LAMBDA e : e.op = op)
StageCalls(r, stage) == SelectSeq(log[r], LAMBDA e : e.op = "chat" /\ e.stage = stage)

\* Completion calls after the planner's.
SynthesisCalls(r) == SelectSeq(log[r], LAMBDA e : e.op = "chat" /\ e.stage # "planner")
\* Calls of a data function and gets of the data source.
DataCalls(r) ==
    SelectSeq(log[r], LAMBDA e : e.op \in {"get_stock_analysis_data", "get_market_news_data", "get"})

LastCall(r) == log[r][Len(log[r])]

\* The planner's text as the claims classify it.
Parsed(r) == json_loads(cleaned_response(plan_text[r]))
Malformed(r) ==
    \/ ~Parsed(r).ok
    \/ Parsed(r).val.t # "object"
    \/ Parsed(r).val.intent = PyNone

\* C1: whatever malformed text the planner call returns (not JSON, JSON that is
\* not an object, an object without an intent key), the request ends with a
\* response on the general_chat path and no exception leaves process_request.
C1_MalformedPlanIsGeneralChat ==
    \A r \in Reqs :
        Done(r) /\ Malformed(r) =>
            /\ result[r].kind = "response"
            /\ LastCall(r).stage = "general"
            /\ result[r].response = LastCall(r).reply

\* C2: a stock_analysis plan whose entity list is missing, null or empty, or
\* whose first entity is an object of another type than ticker, gets the fixed
\* need-a-ticker response; get_stock_analysis_data is not invoked and no
\* data-source or synthesis call is made.
NoTickerPlan(r) ==
    /\ Parsed(r).ok
    /\ Parsed(r).val.t = "object"
    /\ Parsed(r).val.intent = "stock_analysis"
    /\ \/ Parsed(r).val.entities.t \in {"absent", "null"}
       \/ Parsed(r).val.entities.items = <<>>
       \/ /\ Parsed(r).val.entities.items[1].t = "object"
          /\ Parsed(r).val.entities.items[1].type # "ticker"

C2_NoTickerShortCircuits ==
    \A r \in Reqs :
        pc[r] # "idle" /\ NoTickerPlan(r) =>
            /\ Done(r)
            /\ result[r] = Response(NeedTickerMsg)
            /\ DataCalls(r) = <<>>
            /\ SynthesisCalls(r) = <<>>

C2_Witness ==
    \E r \in Reqs :
        /\ Done(r)
        /\ NoTickerPlan(r)
        /\ Parsed(r).val.entities.items # <<>>
        /\ Parsed(r).val.entities.items[1].type = "company"

RECURSIVE SumAppended(_, _)
\* The sum of the candidate counts of the first n checks that appended.
SumAppended(cs, n) ==
    IF n = 0 THEN 0
    ELSE SumAppended(cs, n - 1) + (IF cs[n].appended THEN cs[n].c ELSE 0)

\* The loop has ended for request r.
LoopOver(r) == pc[r] \in {"final", "done"}

\* Every count of the first n checks was measured (none was unavailable).
AllMeasured(cs, n) == \A j \in 1..n : cs[j].c # -1 /\ cs[j].total # -1

\* C3 as stated: with measured counts c_1..c_N, item i is appended iff the
\* running sum of the counts of the summaries appended so far plus c_i is at
\* most MAX_TOKENS, and the loop stops at the first i for which this fails.
C3_AppendedIffRunningSumFits ==
    \A r \in Reqs : \A i \in 1..Len(checks[r]) :
        AllMeasured(checks[r], i) =>
            /\ checks[r][i].appended <=>
                   SumAppended(checks[r], i - 1) + checks[r][i].c <= MAX_TOKENS
            /\ ~checks[r][i].appended => i = Len(checks[r]) /\ LoopOver(r)

\* C3 as amended: item i is appended iff the count last measured for the whole
\* accumulated text (0 before the first append, -1 when the count was
\* unavailable) plus c_i is at most MAX_TOKENS, and the loop stops at the first
\* i for which this fails.
C3_AppendedIffMeasuredTotalFits ==
    \A r \in Reqs : \A i \in 1..Len(checks[r]) :
        /\ checks[r][i].acc = (IF i = 1 THEN 0 ELSE checks[r][i - 1].total)
        /\ checks[r][i].appended <=> checks[r][i].acc + checks[r][i].c <= MAX_TOKENS
        /\ ~checks[r][i].appended => i = Len(checks[r]) /\ LoopOver(r)

\* Two summaries are in, and the third stops the loop although the sum of the
\* three counts fits.
C3_Witness ==
    \E r \in Reqs :
        /\ Len(checks[r]) = 3
        /\ checks[r][1].appended /\ checks[r][2].appended /\ ~checks[r][3].appended
        /\ AllMeasured(checks[r], 3)
        /\ SumAppended(checks[r], 2) + checks[r][3].c <= MAX_TOKENS

RECURSIVE NewlineJoin(_)
\* "\n".join(texts)
NewlineJoin(texts) ==
    IF texts = <<>> THEN <<>>
    ELSE IF Len(texts) = 1 THEN texts[1]
    ELSE texts[1] \o <<"\n">> \o NewlineJoin(Tail(texts))

\* The number of summaries request r has appended.
NumAppended(r) == Len(SelectSeq(checks[r], LAMBDA c : c.appended))

\* The text request r has accumulated: the global while r is in its loop, the
\* content of its final call afterwards.
Accumulated(r) ==
    IF pc[r] = "done" THEN Tail(StageCalls(r, "final")[1].content) ELSE final_response

InNews(r) == pc[r] \in {"loop", "final"} \/ (Done(r) /\ StageCalls(r, "final") # <<>>)

\* C4: the per-item calls are made for the items in provider order; once the
\* budget check fails at item k no call is made for a later item, and the
\* accumulated text is the newline-joined summaries of items 1..k-1.
C4_PrefixInProviderOrder ==
    \A r \in Reqs :
        InNews(r) =>
            LET k == Len(summaries[r])
                m == NumAppended(r)
                calls == StageCalls(r, "item")
            IN /\ Len(calls) = k
               /\ k <= Len(news_data[r])
               /\ \A j \in 1..k : calls[j].content = ItemContent(news_data[r][j])
               /\ \A j \in 1..k : calls[j].reply = summaries[r][j]
               /\ Accumulated(r) = NewlineJoin(SubSeq(summaries[r], 1, m))
               /\ m < k => m = k - 1 /\ LoopOver(r)
               /\ LoopOver(r) /\ m = k => k = Len(news_data[r])

\* The check failed at item 2 of 3: one summary is in, item 3 was never sent.
C4_Witness ==
    \E r \in Reqs :
        /\ Done(r)
        /\ Len(news_data[r]) = 3
        /\ Len(StageCalls(r, "item")) = 2
        /\ NumAppended(r) = 1

\* The three gets of request r have all ended.
AllFetched(r) == \A s \in Sources : fetch[r][s] # "pending"
SomeFetchRaised(r) == \E s \in Sources : fetch[r][s] = "raise"

\* C5: when one of the three gets raised, get_stock_analysis_data returns None,
\* whichever get it was and however the other two ended.
C5_AnyFetchRaisedIsNone ==
    \A r \in Reqs :
        Done(r) /\ AllFetched(r) /\ SomeFetchRaised(r) =>
            /\ gathered[r] = DataNone
            /\ result[r] = Response(NoStockDataMsg(ticker[r]))
            /\ StageCalls(r, "stock") = <<>>

C5_Witness ==
    \E r \in Reqs :
        /\ Done(r)
        /\ fetch[r]["overview"] = "raise"
        /\ fetch[r]["quote"] = "ok"
        /\ fetch[r]["news"] = "ok"

RECURSIVE Alone(_, _, _, _)
\* The loop of request r replayed on accumulators of its own, from the texts
\* and counts its calls returned: the accumulated text and count and the
\* number of per-item calls made when it ends (or has used every recorded
\* reply).
Alone(r, j, text, tok) ==
    IF j > Len(summaries[r]) THEN [text |-> text, tok |-> tok, calls |-> j - 1]
    ELSE IF tok + checks[r][j].c > MAX_TOKENS THEN [text |-> text, tok |-> tok, calls |-> j]
    ELSE Alone(r, j + 1,
               IF text = <<>> THEN summaries[r][j] ELSE text \o <<"\n">> \o summaries[r][j],
               checks[r][j].total)

AloneRun(r) == Alone(r, 1, <<>>, 0)

\* What request r returns as a function of what its own calls returned.
ExpectedResult(r) ==
    LET rt == route_of(plan_of(plan_text[r]))
        empty == gathered[r].kind = "none" \/ gathered[r].val = <<>>
    IN CASE rt.kind = "raise" -> Raised("AttributeError")
         [] rt.kind = "need_ticker" -> Response(NeedTickerMsg)
         [] rt.kind = "stock" ->
              IF empty THEN Response(NoStockDataMsg(rt.ticker))
              ELSE Response(StageCalls(r, "stock")[1].reply)
         [] rt.kind = "news" ->
              IF gathered[r].kind = "raise" THEN Raised("JSONDecodeError")
              ELSE IF empty THEN Response(NoNewsMsg)
              ELSE Response(StageCalls(r, "final")[1].reply)
         [] OTHER -> Response(StageCalls(r, "general")[1].reply)

\* C6: what a request returns, and what it sends to the completion whose text
\* it returns, is a function of what its own calls returned; the globals left
\* by earlier requests have no part in it.
C6_ResultFromOwnResponses ==
    \A r \in Reqs :
        Done(r) =>
            /\ result[r] = ExpectedResult(r)
            /\ StageCalls(r, "final") # <<>> =>
                   /\ StageCalls(r, "final")[1].content = <<"Market News:\n">> \o AloneRun(r).text
                   /\ AloneRun(r).calls = Len(StageCalls(r, "item"))

\* Both requests went through the news loop and appended; the one that
\* finished second ran on the globals the first one left.
C6_Witness ==
    /\ ~wide
    /\ \A r \in {1, 2} :
          /\ Done(r)
          /\ StageCalls(r, "final") # <<>>
          /\ NumAppended(r) >= 1

\* C7: while requests interleave at their awaits, each request's accumulated
\* text and accumulated count in the loop, and the text it hands to the final
\* synthesis, are those it computes alone from the same replies.
C7_AccumulatorsAsAlone ==
    \A r \in Reqs :
        /\ pc[r] \in {"loop", "final"} =>
              /\ final_response = AloneRun(r).text
              /\ final_response_token = AloneRun(r).tok
              /\ AloneRun(r).calls = Len(summaries[r])
        /\ Done(r) /\ StageCalls(r, "final") # <<>> =>
              /\ Accumulated(r) = AloneRun(r).text
              /\ result[r].response = StageCalls(r, "final")[1].reply

\* Request 1 is leaving its loop with two summaries while request 2, which
\* began during request 1's await, is still suspended.
C7_Witness ==
    /\ pc[1] = "final"
    /\ NumAppended(1) = 2
    /\ InFlight(pc[2])
    /\ planner_response = plan_text[2]
    /\ planner_response # plan_text[1]

\* C8: no global that one request in flight has read or written is read or
\* written by another request in flight.
C8_NoGlobalSharedInFlight ==
    \A g \in Globals : Cardinality(accessed[g]) <= 1

\* C9: whatever the data source answers, the data functions return a payload
\* or None; no exception reaches process_request from them.
C9_DataFunctionsNeverRaise ==
    \A r \in Reqs :
        /\ gathered[r].kind # "raise"
        /\ DataCalls(r) # <<>> => result[r].kind # "exception"

\* The fixed message of the intent of request r.
NoDataMsg(r) ==
    IF Calls(r, "get_stock_analysis_data") # <<>> THEN NoStockDataMsg(ticker[r]) ELSE NoNewsMsg

OnSynthesisPath(r) == pc[r] \in {"loop", "final"} \/ (Done(r) /\ SynthesisCalls(r) # <<>>)

\* C10 as stated: gathering returned None: the fixed message of the intent
\* and no synthesis call; gathering returned data: the synthesis path.
C10_NoneOrSynthesis ==
    \A r \in Reqs :
        /\ gathered[r].kind = "none" =>
              Done(r) /\ result[r] = Response(NoDataMsg(r)) /\ SynthesisCalls(r) = <<>>
        /\ gathered[r].kind = "data" => OnSynthesisPath(r)

\* C10 as amended: gathering returned None or an empty payload (a dict
\* without sections, an empty feed): the fixed message of the intent and no
\* synthesis call; gathering returned a non-empty payload: the synthesis path.
C10_NoneOrEmptyOrSynthesis ==
    \A r \in Reqs :
        /\ gathered[r].kind = "none" \/ (gathered[r].kind = "data" /\ gathered[r].val = <<>>) =>
              Done(r) /\ result[r] = Response(NoDataMsg(r)) /\ SynthesisCalls(r) = <<>>
        /\ gathered[r].kind = "data" /\ gathered[r].val # <<>> => OnSynthesisPath(r)

\* The three gets answered with a status other than 200: an empty dict.
C10_Witness ==
    \E r \in Reqs :
        /\ Done(r)
        /\ \A s \in Sources : fetch[r][s] = "http_error"
        /\ gathered[r] = Data(<<>>)

\* C11: at every iteration boundary of the news loop the accumulated count is
\* the count count_tokens reported for the whole accumulated text (0 and the
\* empty text before the first append; the sentinel -1 only where a count can
\* be unavailable), not the sum of the per-item counts.
C11_CountIsMeasuredTotal ==
    \A r \in Reqs :
        pc[r] \in {"loop", "final"} =>
            IF NumAppended(r) = 0
            THEN final_response_token = 0 /\ final_response = <<>>
            ELSE LET totals == SelectSeq(log[r], LAMBDA e : e.op = "count_tokens" /\ e.stage = "total")
                 IN /\ Len(totals) = NumAppended(r)
                    /\ totals[Len(totals)].content = final_response
                    /\ final_response_token \in {BackendTotal(final_response, nl), -1}
                    /\ final_response_token = -1 => wide

\* Two summaries are in and the newline between them costs a token: the
\* measured count of the text is not the sum of the two counts.
C11_Witness ==
    \E r \in Reqs :
        /\ pc[r] = "final"
        /\ NumAppended(r) = 2
        /\ AllMeasured(checks[r], Len(checks[r]))
        /\ final_response_token = BackendTotal(final_response, nl)
        /\ final_response_token # SumAppended(checks[r], Len(checks[r]))

\* C12: in every state of the news loop, whatever the tokenizer (every count
\* measured), the accumulated count is at most MAX_TOKENS.
C12_AccumulatorNeverExceedsCeiling ==
    \A r \in Reqs :
        pc[r] \in {"loop", "final"} /\ AllMeasured(checks[r], Len(checks[r])) =>
            final_response_token <= MAX_TOKENS

\* Request r asked for the market news and got a feed with items.
NewsFetched(r) ==
    /\ Calls(r, "get_market_news_data") # <<>>
    /\ gathered[r].kind = "data"
    /\ gathered[r].val # <<>>

\* C13: with fetched news, no final call is made while the loop runs; when the
\* request ends, however its loop ended, exactly one final completion call
\* with ceiling MAX_TOKENS*2 was made, after every call of the loop and on the
\* accumulated text, and the text it returned is the response.
C13_OneFinalCallAfterLoop ==
    \A r \in Reqs :
        NewsFetched(r) =>
            LET finals == StageCalls(r, "final")
            IN /\ pc[r] \in {"loop", "final"} => finals = <<>>
               /\ Done(r) =>
                     /\ Len(finals) = 1
                     /\ LastCall(r) = finals[1]
                     /\ finals[1].max_tokens = MAX_TOKENS * 2
                     /\ finals[1].content =
                            <<"Market News:\n">>
                                \o NewlineJoin(SubSeq(summaries[r], 1, NumAppended(r)))
                     /\ result[r] = Response(finals[1].reply)

\* The budget stopped the loop at its first item: nothing is accumulated and
\* the final call is made all the same.
C13_Witness ==
    \E r \in Reqs :
        /\ Done(r)
        /\ Len(news_data[r]) >= 2
        /\ Len(checks[r]) = 1
        /\ ~checks[r][1].appended
        /\ StageCalls(r, "final")[1].content = <<"Market News:\n">>
        /\ result[r] = Response(<<"digest">>)

\* The count of the i-th summary of request r was unavailable.
CandidateUnavailable(r, i) == checks[r][i].c # BackendTotal(summaries[r][i], nl)
\* The count of the text accumulated with the i-th summary was unavailable.
TotalUnavailable(r, i) ==
    /\ checks[r][i].appended
    /\ checks[r][i].total # BackendTotal(NewlineJoin(SubSeq(summaries[r], 1, i)), nl)

\* C14: when count_tokens has no count it returns -1, on any subset of its
\* calls in the loop; the loop does not raise and does not stop on that
\* account (the candidate is appended when the accumulated count is within
\* the budget), and the final completion call is made and its text returned.
C14_UnavailableCountKeepsSynthesis ==
    \A r \in Reqs :
        /\ \A i \in 1..Len(checks[r]) :
              /\ CandidateUnavailable(r, i) =>
                    /\ checks[r][i].c = -1
                    /\ checks[r][i].acc <= MAX_TOKENS => checks[r][i].appended
              /\ TotalUnavailable(r, i) => checks[r][i].total = -1
        /\ (\E i \in 1..Len(checks[r]) : CandidateUnavailable(r, i) \/ TotalUnavailable(r, i)) =>
              /\ result[r].kind # "exception"
              /\ Done(r) =>
                    /\ Len(StageCalls(r, "final")) = 1
                    /\ LastCall(r).stage = "final"
                    /\ result[r] = Response(LastCall(r).reply)

\* The first summary was appended without a count of its own, the count of
\* the text with the second was unavailable, and the digest was returned.
C14_Witness ==
    \E r \in Reqs :
        /\ Done(r)
        /\ Len(checks[r]) >= 2
        /\ checks[r][1].c = -1 /\ checks[r][1].appended /\ checks[r][1].total # -1
        /\ checks[r][2].c # -1 /\ checks[r][2].appended /\ checks[r][2].total = -1
        /\ result[r] = Response(<<"digest">>)

\* C15: get_stock_analysis_data is only ever called with a ticker that is a
\* non-empty string: never with None (the first entity has no value key) and
\* never with the empty string.
C15_TickerValidatedBeforeGather ==
    \A r \in Reqs :
        Calls(r, "get_stock_analysis_data") # <<>> => ticker[r] \notin {PyNone, ""}

\* The payload d has the section s.
HasSection(d, s) == \E i \in 1..Len(d.val) : d.val[i] = s

\* C16: when the three gets returned responses (none raised; every body is
\* JSON), the payload has a section iff the response of that section's own
\* source has status 200 and carries its expected data, whatever the other
\* two responses are.
C16_SectionIffOwnSourceOk ==
    \A r \in Reqs :
        /\ Done(r)
        /\ AllFetched(r)
        /\ \A s \in Sources : fetch[r][s] \in {"http_error", "nokey", "ok"}
        => /\ gathered[r].kind = "data"
           /\ \A s \in Sources : HasSection(gathered[r], s) <=> fetch[r][s] = "ok"

\* Every reply shape the backend is given in the model.
ReplyShapes ==
    PlannerReplies(TRUE) \cup GeneralReplies(TRUE) \cup ItemReplies(TRUE)
        \cup DigestReplies(TRUE) \cup AnalysisReplies(TRUE)

FallbackMsgs == {NotConfiguredMsg, SafetyMsg, DidntUnderstandMsg, SomethingWrongMsg}

\* The text the backend generated in a reply: resp.text, or the text parts of
\* the first candidate.
GeneratedText(reply) ==
    IF reply.text.ok THEN reply.text.val
    ELSE IF reply.cands # <<>> THEN strip(join(reply.cands[1].parts))
    ELSE <<>>

\* C17: chat() returns, for every reply shape of the backend and whether or
\* not the client is configured, a string that is not empty (not even blank):
\* the generated text or one of the four fixed fallback strings; the text of
\* every completion call the requests made is such a string.  A candidate
\* without text whose finish_reason spells safety in any mix of cases gets
\* the safety message; any other finish_reason the default one.  (chat is a
\* function of its arguments: its table is evaluated in the initial states.)
C17_ChatAlwaysReturnsText ==
    /\ (\A r \in Reqs : pc[r] = "idle") =>
          \A ready \in BOOLEAN, reply \in ReplyShapes :
              LET out == chat(ready, reply)
              IN /\ strip(out) # <<>>
                 /\ out \in FallbackMsgs \/ (ready /\ ~reply.raises /\ out = GeneratedText(reply))
                 /\ ~ready => out = NotConfiguredMsg
                 /\ ready /\ reply.raises => out = SomethingWrongMsg
                 /\ ready /\ reply \in SafetyFinishReplies => out = SafetyMsg
                 /\ ready /\ reply \in OtherFinishReplies => out = DidntUnderstandMsg
    /\ \A r \in Reqs : \A i \in 1..Len(log[r]) :
          log[r][i].op = "chat" => strip(log[r][i].reply) # <<>>

\* The planner call was blocked for safety and the general_chat call that
\* followed came back blank: both returned a fallback string.
C17_Witness ==
    \E r \in Reqs :
        /\ Done(r)
        /\ client_ready
        /\ Len(log[r]) = 2
        /\ log[r][1].reply = SafetyMsg
        /\ log[r][2].reply = DidntUnderstandMsg
        /\ result[r] = Response(DidntUnderstandMsg)

\* The plan of request r is an object whose intent is neither stock_analysis
\* nor market_news: general_chat, an unrecognized intent, no intent key, or
\* the fallback plan of a planning failure.
GeneralPlan(r) ==
    /\ plan_of(plan_text[r]).t = "object"
    /\ plan_of(plan_text[r]).intent \notin {"stock_analysis", "market_news"}

\* C18: such a request makes no data-source call and, after the planner call,
\* exactly one completion call, with max_tokens 512 and the user's text as
\* content; the text it returns is the response.
C18_GeneralChatSingleCall ==
    \A r \in Reqs :
        pc[r] # "idle" /\ GeneralPlan(r) =>
            /\ Done(r)
            /\ DataCalls(r) = <<>>
            /\ Len(log[r]) = 2
            /\ log[r][1].op = "chat" /\ log[r][1].stage = "planner"
            /\ log[r][2].op = "chat" /\ log[r][2].stage = "general"
            /\ log[r][2].max_tokens = 512
            /\ log[r][2].content = ReqText(r)
            /\ result[r] = Response(log[r][2].reply)

\* An intent the router does not know, answered by the one general call.
C18_Witness ==
    \E r \in Reqs :
        /\ Done(r)
        /\ plan_text[r] = <<DocOther>>
        /\ result[r] = Response(<<"Hello! How can I help?">>)

\* Request r is on the stock_analysis path and its gathering returned a
\* payload with at least one section.
StockGathered(r) ==
    /\ Calls(r, "get_stock_analysis_data") # <<>>
    /\ gathered[r].kind = "data"
    /\ gathered[r].val # <<>>

\* C19: with a gathered payload the stock_analysis path makes one synthesis
\* completion call and no other (no loop); its user message is the ticker
\* line followed by the serialized payload, in which every gathered section
\* appears; the response is the text of that call and the backend is gemini.
C19_StockSingleSynthesis ==
    \A r \in Reqs :
        StockGathered(r) =>
            LET synth == SynthesisCalls(r)
            IN /\ Done(r)
               /\ Len(synth) = 1
               /\ synth[1].stage = "stock"
               /\ LastCall(r) = synth[1]
               /\ synth[1].max_tokens = 1024
               /\ synth[1].content =
                      <<"Data for ", Format(ticker[r]), ":\n">> \o json_dumps(gathered[r].val)
               /\ \A s \in Sources :
                      HasSection(gathered[r], s) =>
                          \E i \in 1..Len(synth[1].content) : synth[1].content[i] = Serialized(s)
               /\ Calls(r, "count_tokens") = <<>>
               /\ result[r].kind = "response"
               /\ result[r].response = synth[1].reply
               /\ result[r].backend = "gemini"

\* The three sections were gathered and the analysis was returned.
C19_Witness ==
    \E r \in Reqs :
        /\ Done(r)
        /\ gathered[r] = Data(<<"quote", "overview", "news">>)
        /\ ticker[r] = "TSLA"
        /\ result[r] = Response(<<"analysis">>)

IsPlannerCall(e) == e.op = "chat" /\ e.stage = "planner"
IsSynthesisCall(e) == e.op = "chat" /\ e.stage # "planner"
IsDataCall(e) == e.op \in {"get_stock_analysis_data", "get_market_news_data", "get"}
IsItemCall(e) == e.op = "chat" /\ e.stage = "item"

\* The calls of one loop iteration follow the per-item call at position p of
\* the log L in the order of the code, and the next per-item call or the
\* final call comes after them.
IterationInOrder(L, p) ==
    /\ p + 1 <= Len(L)
    /\ L[p + 1] = CountEv("item", L[p].reply)
    /\ p + 2 <= Len(L) =>
          \/ L[p + 2].op = "chat" /\ L[p + 2].stage = "final"
          \/ /\ L[p + 2] = CountEv("log", L[p].reply)
             /\ p + 3 <= Len(L)
             /\ L[p + 3].op = "count_tokens" /\ L[p + 3].stage = "total"
             /\ p + 4 <= Len(L) =>
                   L[p + 4].op = "chat" /\ L[p + 4].stage \in {"item", "final"}

\* C20: within a request the planner call is the first call and has returned
\* before any data-source call; no synthesis call is made while the request
\* awaits its data, every get of the request has ended before its first
\* synthesis call and no data-source call follows one; in the news loop the
\* calls are made item by item, in the order of the feed, the calls of one
\* item all made before the call for the next.
C20_StagesInOrder ==
    \A r \in Reqs :
        LET L == log[r]
        IN /\ L # <<>> => IsPlannerCall(L[1])
           /\ \A i \in 2..Len(L) : ~IsPlannerCall(L[i])
           /\ \A i \in 1..Len(L) : \A j \in (i + 1)..Len(L) :
                 ~(IsSynthesisCall(L[i]) /\ IsDataCall(L[j]))
           /\ pc[r] \in {"await_stock", "await_news"} => SynthesisCalls(r) = <<>>
           /\ SynthesisCalls(r) # <<>> /\ DataCalls(r) # <<>> =>
                 /\ gathered[r].kind = "data"
                 /\ Calls(r, "get_stock_analysis_data") # <<>> => AllFetched(r)
           /\ \A p \in 1..Len(L) : IsItemCall(L[p]) => IterationInOrder(L, p)
           /\ \A k \in 1..Len(StageCalls(r, "item")) :
                 StageCalls(r, "item")[k].content = ItemContent(news_data[r][k])

\* A request went through every stage of the news path: planner, fetch, three
\* iterations that appended, final synthesis.
C20_Witness ==
    \E r \in Reqs :
        /\ Done(r)
        /\ Len(StageCalls(r, "item")) = 3
        /\ NumAppended(r) = 3
        /\ Len(StageCalls(r, "final")) = 1
        /\ Len(log[r]) = 16

\* The sources of request r in the order in which their gets ended.
EndedOrder(r) == SelectSeq(log[r], LAMBDA e : e.op = "ended")

IsGet(e) == e.op = "get"
IsEnded(e) == e.op = "ended"

\* C21: get_stock_analysis_data issues its three gets together, before any of
\* them ends; it returns only when the three have ended (with a response or an
\* exception), and what it returns is determined by the three outcomes alone,
\* in whatever order the gets ended.
C21_GatherBarrierOrderFree ==
    \A r \in Reqs :
        /\ pc[r] = "await_stock" =>
              /\ \A s \in Sources : \E i \in 1..Len(log[r]) : log[r][i] = FetchEv(s)
              /\ \A i \in 1..Len(log[r]) : \A j \in 1..Len(log[r]) :
                    IsGet(log[r][i]) /\ IsEnded(log[r][j]) => i < j
              /\ gathered[r] = NotGathered
        /\ (/\ Calls(r, "get_stock_analysis_data") # <<>>
            /\ gathered[r] # NotGathered
            /\ ALPHA_VANTAGE_API_KEY) =>
              /\ AllFetched(r)
              /\ wide => Len(EndedOrder(r)) = 3
              /\ gathered[r] = get_stock_analysis_data(ALPHA_VANTAGE_API_KEY, fetch[r])

\* The gets ended in the reverse of the order in which they were issued, and
\* the payload has its three sections in the order of the code.
C21_Witness ==
    \E r \in Reqs :
        /\ Done(r)
        /\ Len(EndedOrder(r)) = 3
        /\ EndedOrder(r)[1].stage = "news"
        /\ EndedOrder(r)[2].stage = "overview"
        /\ EndedOrder(r)[3].stage = "quote"
        /\ gathered[r] = Data(<<"quote", "overview", "news">>)

\* C22: with a completion client that is not configured, every request that
\* has begun has ended, without an exception and without a data-source call:
\* the planner call and the general_chat call both returned the fixed
\* not-configured message, and that message is the response.
C22_NotConfiguredMessage ==
    \A r \in Reqs :
        ~client_ready /\ pc[r] # "idle" =>
            /\ Done(r)
            /\ result[r] = Response(NotConfiguredMsg)
            /\ DataCalls(r) = <<>>
            /\ Len(log[r]) = 2
            /\ \A i \in 1..2 : log[r][i].op = "chat" /\ log[r][i].reply = NotConfiguredMsg
            /\ log[r][2].stage = "general"

\* Two requests with different texts were both answered by the message.
C22_Witness ==
    /\ ~client_ready
    /\ Done(1) /\ Done(2)
    /\ ReqText(1) # ReqText(2)
    /\ result[1] = Response(NotConfiguredMsg)
    /\ result[2] = Response(NotConfiguredMsg)

\* C23: count_tokens returns -1 only when the count is unavailable (the
\* client is not ready, the backend call raised, the reply has no total);
\* when the backend reports a total, a total of 0 included, that total is
\* returned.
C23_ReportedTotalIsReturned ==
    counted.called =>
        LET unavailable == ~client_ready \/ counted.rep.raises \/ ~counted.rep.has_total
        IN /\ counted.out = -1 => unavailable
           /\ ~unavailable => counted.out = counted.rep.total

\* Every count_tokens call request r made in its loop returned -1.
NeverCounted(r) ==
    /\ checks[r] # <<>>
    /\ \A i \in 1..Len(checks[r]) :
          checks[r][i].c = -1 /\ (checks[r][i].appended => checks[r][i].total = -1)

\* C24: when count_tokens returns -1 on every call of a market_news request,
\* the budget check never stops the loop: every summary is appended, the loop
\* ends only with the last item of the feed, and the accumulated text is all
\* the summaries, whatever their size.
C24_NoCountNoBudget ==
    \A r \in Reqs :
        NeverCounted(r) =>
            /\ \A i \in 1..Len(checks[r]) : checks[r][i].appended
            /\ NumAppended(r) = Len(summaries[r])
            /\ LoopOver(r) =>
                  /\ Len(StageCalls(r, "item")) = Len(news_data[r])
                  /\ NumAppended(r) = Len(news_data[r])
            /\ InNews(r) => Accumulated(r) = NewlineJoin(summaries[r])
            /\ pc[r] = "loop" => final_response_token = -1

\* Three summaries of 1025 tokens each were appended without a count: the
\* accumulated text is three times over the budget.
C24_Witness ==
    \E r \in Reqs :
        /\ Done(r)
        /\ NeverCounted(r)
        /\ Len(news_data[r]) = 3
        /\ NumAppended(r) = 3
        /\ \A i \in 1..3 : summaries[r][i] = <<"s1025">>
        /\ BackendTotal(Accumulated(r), nl) > MAX_TOKENS

\* The data function of request r returned a payload with nothing in it: a
\* dict without sections, or an empty feed.
EmptyGathered(r) == gathered[r].kind = "data" /\ gathered[r].val = <<>>

\* C25: an empty gather result is handled as None is: the request ends with
\* the fixed message of its intent, the one a failed fetch gets, and makes no
\* synthesis completion call (for market_news: no per-item call, no count
\* and no final call).
C25_EmptyPayloadAsNone ==
    \A r \in Reqs :
        EmptyGathered(r) =>
            /\ Done(r)
            /\ result[r].kind = "response"
            /\ result[r].backend = BackendId
            /\ Calls(r, "get_stock_analysis_data") # <<>> =>
                  result[r].response = NoStockDataMsg(ticker[r])
            /\ Calls(r, "get_market_news_data") # <<>> =>
                  result[r].response = NoNewsMsg
            /\ SynthesisCalls(r) = <<>>
            /\ Calls(r, "count_tokens") = <<>>
            /\ LastCall(r).op \in {"get", "ended"}

\* The market-news get answered 200 with a feed that has no item.
C25_Witness ==
    \E r \in Reqs :
        /\ Done(r)
        /\ Calls(r, "get_market_news_data") # <<>>
        /\ gathered[r] = Data(<<>>)
        /\ result[r] = Response(NoNewsMsg)

====
